---- MODULE Spec2Model ----
(***************************************************************************)
(* The type registries (LayerRegistry, SolverRegistry) and the prefetching *)
(* data pipeline (BasePrefetchingDataLayer) of the framework.              *)
(*                                                                         *)
(* Two independent state machines share this module:                       *)
(*   RegistrySpec  the registries: AddCreator, Create*, *TypeList           *)
(*   Spec          the pipeline: LayerSetUp, the worker, Forward_cpu, stop  *)
(*   FairSpec      Spec with the fairness of a running worker thread        *)
(*                                                                         *)
(* BlockingQueue and InternalThread are used by the pipeline but defined   *)
(* elsewhere: push appends, pop blocks while the queue is empty and returns *)
(* the head, a blocked pop is ended by the interruption of the thread,     *)
(* must_stop() tells that the interruption was requested.  load_batch is   *)
(* the subclass's: here it stamps the batch with the next sequence number, *)
(* or throws; it is not interrupted.  The consumer thread makes the calls  *)
(* LayerSetUp, Forward_cpu (at most MaxNext times) and the stop, in turn.  *)
(***************************************************************************)
EXTENDS Integers, Sequences, FiniteSets, TLC

VARIABLES
    \* ---- registries
    layer_registry,     \* LayerRegistry<Dtype>::Registry(): std::map<string, Creator>
    solver_registry,    \* SolverRegistry<Dtype>::Registry()
    fatal,              \* the CHECK failure that aborted the process, or NoFatal
    call,               \* the last registry call: its arguments and its outcome
    call_tick,          \* flips at every registry call
    layer_registered,   \* per name, the creator of the first LayerRegisterer that returned
    solver_registered,  \* per name, the creator of the first SolverRegisterer that returned
    layer_order,        \* the names in the order the LayerRegisterers returned
    \* ---- pipeline
    prefetch_n,         \* prefetch_.size(): the prefetch depth N
    mode,               \* Caffe::mode()
    top_size,           \* top.size() handed to LayerSetUp
    output_labels_,     \* BaseDataLayer::output_labels_
    init_rand_calls,    \* number of data_transformer_->InitRand() calls so far
    prefetch_free_,     \* BlockingQueue<Batch*>: the free queue
    prefetch_full_,     \* BlockingQueue<Batch*>: the full queue
    prefetch_current_,  \* Batch* handed to the consumer, NoBatch when null
    top_data,           \* the batch whose data_ top[0] shares (set_cpu_data)
    top_label,          \* the batch whose label_ top[1] shares
    thread_state,       \* InternalThread: STOPPED, RUNNING, STOP_REQUESTED
    thread_started,     \* StartInternalThread() has been called
    interrupted_at,     \* where the worker was when the stop was requested
                        \* ("blocked_pop": in pop() on an empty free queue)
    pcW,                \* position of the worker in InternalThreadEntry
    batch,              \* the worker's local Batch* of the current iteration
    pcC,                \* position of the consumer in Forward_cpu
    payload,            \* per batch: the sequence number load_batch stamped
    loaded,             \* per batch: its last load_batch completed
    pending,            \* device transfers issued on the stream, not yet synchronised
    device_copy,        \* per batch: the parts whose device copy has its contents
    fill_seq,           \* number of load_batch calls that completed
    fill_started,       \* number of load_batch calls entered
    received,           \* the sequence numbers Forward_cpu has handed out, in order
    failed_batch,       \* the batch whose load_batch threw, NoBatch if none
    next_calls          \* number of Forward_cpu calls entered

regVars == <<layer_registry, solver_registry, fatal, call, call_tick,
             layer_registered, solver_registered, layer_order>>

pipeVars == <<prefetch_n, mode, top_size, output_labels_, init_rand_calls,
              prefetch_free_, prefetch_full_, prefetch_current_, top_data,
              top_label, thread_state, thread_started, interrupted_at, pcW,
              batch, pcC, payload,
              loaded, pending, device_copy, fill_seq, fill_started, received, failed_batch,
              next_calls>>

vars == <<regVars, pipeVars>>

(***************************************************************************)
(* Strings.  A string is the sequence of its character codes, so that the  *)
(* key order of std::map<string, ...> is the order the code gets.          *)
(***************************************************************************)

\* "A", "AB", "B": in std::string order "A" < "AB" < "B"
TypeNames == {<<65>>, <<65, 66>>, <<66>>}

\* std::string operator<: lexicographic on the characters, a proper prefix first
RECURSIVE StringLess(_, _)
StringLess(a, b) ==
    IF b = <<>> THEN FALSE
    ELSE IF a = <<>> THEN TRUE
    ELSE IF Head(a) < Head(b) THEN TRUE
    ELSE IF Head(a) > Head(b) THEN FALSE
    ELSE StringLess(Tail(a), Tail(b))

\* the list separator ", " of *TypeListString
Separator == <<44, 32>>

(***************************************************************************)
(* std::map<string, Creator>: a function from the keys present.            *)
(***************************************************************************)

\* the function pointers handed to AddCreator
Creators == {"creator1", "creator2"}
\* a value-initialised Creator (what map::operator[] inserts for a new key)
NullCreator == "null"

\* the LayerParameter / SolverParameter objects handed to Create*: a type and
\* the rest of the message
ParamIds == {"p1", "p2"}
Params == [type : TypeNames, id : ParamIds]

EmptyMap == << >>

\* map::count(key)
MapCount(m, k) == IF k \in DOMAIN m THEN 1 ELSE 0

\* map::operator[](key) = value: insert or overwrite
MapAssign(m, k, v) == [x \in (DOMAIN m) \cup {k} |-> IF x = k THEN v ELSE m[x]]

\* map::operator[](key) read: inserts a value-initialised entry when the key is new
MapIndex(m, k) ==
    IF k \in DOMAIN m
    THEN [map |-> m, value |-> m[k]]
    ELSE [map |-> MapAssign(m, k, NullCreator), value |-> NullCreator]

\* the first key of begin()..end(): the least one
MapMinKey(keys) == CHOOSE k \in keys : \A o \in keys \ {k} : StringLess(k, o)

\* iteration begin()..end(): the keys in ascending order
RECURSIVE KeysInOrder(_)
KeysInOrder(keys) ==
    IF keys = {} THEN <<>>
    ELSE LET k == MapMinKey(keys) IN <<k>> \o KeysInOrder(keys \ {k})

NoFatal == [kind |-> "none", type |-> <<>>, known |-> <<>>]
NoInstance == [creator |-> NullCreator, param |-> "none"]

\* (*creator)(param): the instance the factory makes
CallCreator(c, param) == [creator |-> c, param |-> param]

(***************************************************************************)
(* LayerRegistry<Dtype>  (include/caffe/layer_factory.hpp)                 *)
(***************************************************************************)

\* AddCreator, with the CHECK removed: a duplicate overwrites silently
LayerAddCreator_Overwrite(reg, type, creator) ==
    [registry |-> MapAssign(reg, type, creator), fatal |-> NoFatal]

\* AddCreator(type, creator): CHECK_EQ(registry.count(type), 0), then
\* registry[type] = creator.  A failed CHECK aborts before the assignment.
LayerAddCreator(reg, type, creator) ==
    IF MapCount(reg, type) # 0
    THEN [registry |-> reg,
          fatal |-> [kind |-> "Layer type already registered", type |-> type,
                     known |-> <<>>]]
    ELSE [registry |-> MapAssign(reg, type, creator), fatal |-> NoFatal]

\* LayerTypeList, iterating from the second entry: the first name is dropped
LayerTypeList_SkipFirst(reg) ==
    LET all == KeysInOrder(DOMAIN reg) IN IF all = <<>> THEN <<>> ELSE Tail(all)

\* LayerTypeList, iterating rbegin()..rend(): the names in descending order
LayerTypeList_Descending(reg) ==
    LET all == KeysInOrder(DOMAIN reg)
    IN  [i \in 1 .. Len(all) |-> all[Len(all) + 1 - i]]

\* LayerTypeList(): push_back(iter->first) for iter in begin()..end()
LayerTypeList(reg) == KeysInOrder(DOMAIN reg)

\* the loop of *TypeListString over the vector: ", " before every name but the first
RECURSIVE JoinTypes(_, _)
JoinTypes(types, i) ==
    IF i > Len(types) THEN <<>>
    ELSE (IF i # 1 THEN Separator ELSE <<>>) \o types[i] \o JoinTypes(types, i + 1)

\* LayerTypeListString()
LayerTypeListString(reg) == JoinTypes(LayerTypeList(reg), 1)

\* CreateLayer, with the CHECK removed: registry[type] is indexed and called
\* whatever it holds
CreateLayer_Unchecked(reg, param) ==
    LET e == MapIndex(reg, param.type)
    IN  [registry |-> e.map, fatal |-> NoFatal,
         ret |-> CallCreator(e.value, param),
         invoked |-> <<[creator |-> e.value, param |-> param]>>]

\* CreateLayer, calling the first registered creator instead of registry[type]
CreateLayer_FirstCreator(reg, param) ==
    IF MapCount(reg, param.type) # 1
    THEN [registry |-> reg,
          fatal |-> [kind |-> "Unknown layer type", type |-> param.type,
                     known |-> LayerTypeListString(reg)],
          ret |-> NoInstance, invoked |-> <<>>]
    ELSE LET c == reg[MapMinKey(DOMAIN reg)]
         IN  [registry |-> reg, fatal |-> NoFatal,
              ret |-> CallCreator(c, param),
              invoked |-> <<[creator |-> c, param |-> param]>>]

\* CreateLayer with registry[type] read before the CHECK: operator[] inserts
\* the unknown type, then the CHECK fails
CreateLayer_IndexFirst(reg, param) ==
    LET type == param.type
        e == MapIndex(reg, type)
    IN  IF MapCount(reg, type) # 1
        THEN [registry |-> e.map,
              fatal |-> [kind |-> "Unknown layer type", type |-> type,
                         known |-> LayerTypeListString(reg)],
              ret |-> NoInstance, invoked |-> <<>>]
        ELSE [registry |-> e.map, fatal |-> NoFatal,
              ret |-> CallCreator(e.value, param),
              invoked |-> <<[creator |-> e.value, param |-> param]>>]

\* CreateLayer(param): CHECK_EQ(registry.count(type), 1) with the known types
\* in the message, then return registry[type](param).  The LOG(INFO) of the
\* root solver changes no state.
CreateLayer(reg, param) ==
    LET type == param.type IN
    IF MapCount(reg, type) # 1
    THEN [registry |-> reg,
          fatal |-> [kind |-> "Unknown layer type", type |-> type,
                     known |-> LayerTypeListString(reg)],
          ret |-> NoInstance, invoked |-> <<>>]
    ELSE LET e == MapIndex(reg, type)
         IN  [registry |-> e.map, fatal |-> NoFatal,
              ret |-> CallCreator(e.value, param),
              invoked |-> <<[creator |-> e.value, param |-> param]>>]

(***************************************************************************)
(* SolverRegistry<Dtype>  (include/caffe/solver_factory.hpp)               *)
(***************************************************************************)

\* AddCreator(type, creator)
SolverAddCreator(reg, type, creator) ==
    IF MapCount(reg, type) # 0
    THEN [registry |-> reg,
          fatal |-> [kind |-> "Solver type already registered", type |-> type,
                     known |-> <<>>]]
    ELSE [registry |-> MapAssign(reg, type, creator), fatal |-> NoFatal]

\* SolverTypeList()
SolverTypeList(reg) == KeysInOrder(DOMAIN reg)

\* SolverTypeListString()
SolverTypeListString(reg) == JoinTypes(SolverTypeList(reg), 1)

\* CreateSolver(param)
CreateSolver(reg, param) ==
    LET type == param.type IN
    IF MapCount(reg, type) # 1
    THEN [registry |-> reg,
          fatal |-> [kind |-> "Unknown solver type", type |-> type,
                     known |-> SolverTypeListString(reg)],
          ret |-> NoInstance, invoked |-> <<>>]
    ELSE LET e == MapIndex(reg, type)
         IN  [registry |-> e.map, fatal |-> NoFatal,
              ret |-> CallCreator(e.value, param),
              invoked |-> <<[creator |-> e.value, param |-> param]>>]

(***************************************************************************)
(* The registry calls a program makes.  Every call is recorded in `call`;  *)
(* a failed CHECK aborts the process, after which nothing runs.            *)
(***************************************************************************)

NoCall == [class |-> "none", op |-> "none", type |-> <<>>, creator |-> NullCreator,
           param |-> "none", ret |-> NoInstance, invoked |-> <<>>, list |-> <<>>]

RegInit ==
    /\ layer_registry = EmptyMap
    /\ solver_registry = EmptyMap
    /\ fatal = NoFatal
    /\ call = NoCall
    /\ call_tick = 0
    /\ layer_registered = EmptyMap
    /\ solver_registered = EmptyMap
    /\ layer_order = <<>>

\* LayerRegisterer(type, creator): the constructor calls AddCreator
LayerRegisterer(type, creator) ==
    /\ fatal = NoFatal
    /\ LET r == LayerAddCreator(layer_registry, type, creator) IN
        /\ layer_registry' = r.registry
        /\ fatal' = r.fatal
        /\ layer_registered' = IF r.fatal = NoFatal /\ type \notin DOMAIN layer_registered
                               THEN MapAssign(layer_registered, type, creator)
                               ELSE layer_registered
    /\ call' = [NoCall EXCEPT !.class = "Layer", !.op = "AddCreator",
                              !.type = type, !.creator = creator]
    /\ layer_order' = IF LayerAddCreator(layer_registry, type, creator).fatal = NoFatal
                      THEN Append(layer_order, type) ELSE layer_order
    /\ call_tick' = 1 - call_tick
    /\ UNCHANGED <<solver_registry, solver_registered, pipeVars>>

\* a caller of LayerRegistry<Dtype>::CreateLayer(param)
CallCreateLayer(param) ==
    /\ fatal = NoFatal
    /\ LET r == CreateLayer(layer_registry, param) IN
        /\ layer_registry' = r.registry
        /\ fatal' = r.fatal
        /\ call' = [NoCall EXCEPT !.class = "Layer", !.op = "Create",
                                  !.type = param.type, !.param = param,
                                  !.ret = r.ret, !.invoked = r.invoked]
    /\ call_tick' = 1 - call_tick
    /\ UNCHANGED <<solver_registry, layer_registered, solver_registered,
                   layer_order, pipeVars>>

\* a caller of LayerRegistry<Dtype>::LayerTypeList()
CallLayerTypeList ==
    /\ fatal = NoFatal
    /\ call' = [NoCall EXCEPT !.class = "Layer", !.op = "TypeList",
                              !.list = LayerTypeList(layer_registry)]
    /\ call_tick' = 1 - call_tick
    /\ UNCHANGED <<layer_registry, solver_registry, fatal, layer_registered,
                   solver_registered, layer_order, pipeVars>>

\* SolverRegisterer(type, creator): the constructor calls AddCreator
SolverRegisterer(type, creator) ==
    /\ fatal = NoFatal
    /\ LET r == SolverAddCreator(solver_registry, type, creator) IN
        /\ solver_registry' = r.registry
        /\ fatal' = r.fatal
        /\ solver_registered' = IF r.fatal = NoFatal /\ type \notin DOMAIN solver_registered
                                THEN MapAssign(solver_registered, type, creator)
                                ELSE solver_registered
    /\ call' = [NoCall EXCEPT !.class = "Solver", !.op = "AddCreator",
                              !.type = type, !.creator = creator]
    /\ call_tick' = 1 - call_tick
    /\ UNCHANGED <<layer_registry, layer_registered, layer_order, pipeVars>>

\* a caller of SolverRegistry<Dtype>::CreateSolver(param)
CallCreateSolver(param) ==
    /\ fatal = NoFatal
    /\ LET r == CreateSolver(solver_registry, param) IN
        /\ solver_registry' = r.registry
        /\ fatal' = r.fatal
        /\ call' = [NoCall EXCEPT !.class = "Solver", !.op = "Create",
                                  !.type = param.type, !.param = param,
                                  !.ret = r.ret, !.invoked = r.invoked]
    /\ call_tick' = 1 - call_tick
    /\ UNCHANGED <<layer_registry, layer_registered, solver_registered,
                   layer_order, pipeVars>>

\* a caller of SolverRegistry<Dtype>::SolverTypeList()
CallSolverTypeList ==
    /\ fatal = NoFatal
    /\ call' = [NoCall EXCEPT !.class = "Solver", !.op = "TypeList",
                              !.list = SolverTypeList(solver_registry)]
    /\ call_tick' = 1 - call_tick
    /\ UNCHANGED <<layer_registry, solver_registry, fatal, layer_registered,
                   solver_registered, layer_order, pipeVars>>

(***************************************************************************)
(* BasePrefetchingDataLayer  (src/caffe/layers/base_data_layer.cpp)        *)
(***************************************************************************)

\* the largest prefetch depth (data_param().prefetch()) the model configures
MaxPrefetch == 2
\* the number of Forward_cpu calls the consumer makes at most
MaxNext == 3

NoBatch == 0
\* the contents of a Batch that load_batch never filled
Unset == -1

Batches == 1 .. prefetch_n

\* the elements of a queue
Range(q) == {q[i] : i \in 1 .. Len(q)}

\* BlockingQueue<T>::push(t): append at the tail (and wake a waiter)
QueuePush(q, t) == Append(q, t)
\* BlockingQueue<T>::pop() blocks while the queue is empty
QueueCanPop(q) == q # <<>>
\* BlockingQueue<T>::pop(): the head is returned ...
QueueFront(q) == Head(q)
\* ... and removed
QueuePopped(q) == Tail(q)

\* InternalThread::must_stop(): an interruption of the thread was requested
must_stop == thread_state = "STOP_REQUESTED"

\* the state after the constructor, lines 35-45: every Batch of prefetch_ is
\* pushed to prefetch_free_, prefetch_full_ is empty, prefetch_current_ null
PipeInitFor(n, m, t) ==
    /\ prefetch_n = n
    /\ mode = m
    /\ top_size = t
    /\ output_labels_ \in BOOLEAN      \* not initialised by the constructors
    /\ init_rand_calls = 0
    /\ prefetch_free_ = [i \in 1 .. n |-> i]
    /\ prefetch_full_ = <<>>
    /\ prefetch_current_ = NoBatch
    /\ top_data = NoBatch
    /\ top_label = NoBatch
    /\ thread_state = "STOPPED"
    /\ thread_started = FALSE
    /\ interrupted_at = "none"
    /\ pcW = "none"
    /\ batch = NoBatch
    /\ pcC = "idle"
    /\ payload = [b \in 1 .. n |-> Unset]
    /\ loaded = [b \in 1 .. n |-> FALSE]
    /\ pending = {}
    /\ device_copy = [b \in 1 .. n |-> {}]
    /\ fill_seq = 0
    /\ fill_started = 0
    /\ received = <<>>
    /\ failed_batch = NoBatch
    /\ next_calls = 0

PipeInit ==
    \E n \in 1 .. MaxPrefetch, m \in {"CPU", "GPU"}, t \in {1, 2} :
        PipeInitFor(n, m, t)

\* BaseDataLayer::LayerSetUp: output_labels_ from top.size(), the transformer
\* is made and InitRand() called once, then DataLayerSetUp (the subclass)
BaseDataLayerSetUp(tops, rand_calls) ==
    [output_labels_ |-> (tops # 1), init_rand_calls |-> rand_calls + 1]

\* InternalThread::StartInternalThread(): the thread is spawned and runs
\* InternalThreadEntry
StartInternalThread ==
    /\ thread_state' = "RUNNING"
    /\ thread_started' = TRUE
    /\ pcW' = "check"

\* BasePrefetchingDataLayer::LayerSetUp: the base set-up, the buffers are
\* touched (no state of the model), InitRand() again, the thread is started
LayerSetUp ==
    /\ ~thread_started
    /\ thread_state = "STOPPED"
    /\ LET base == BaseDataLayerSetUp(top_size, init_rand_calls) IN
        /\ output_labels_' = base.output_labels_
        /\ init_rand_calls' = base.init_rand_calls + 1
    /\ StartInternalThread
    /\ UNCHANGED <<regVars, prefetch_n, mode, top_size, interrupted_at,
                   prefetch_free_,
                   prefetch_full_,
                   prefetch_current_, top_data, top_label, batch, pcC, payload,
                   loaded, pending, device_copy, fill_seq, fill_started, received,
                   failed_batch, next_calls>>

\* what no worker step changes
workerFrame == <<regVars, prefetch_n, mode, top_size, output_labels_, init_rand_calls,
                 prefetch_current_, top_data, top_label, thread_state,
                 thread_started, interrupted_at, pcC, received, next_calls>>


\* line 88 with the negation lost: while (must_stop())
WorkerCheck_Inverted ==
    /\ pcW = "check"
    /\ pcW' = IF must_stop THEN "pop" ELSE "done"
    /\ UNCHANGED <<workerFrame, prefetch_free_, prefetch_full_, batch, payload,
                   loaded, pending, device_copy, fill_seq, fill_started,
                   failed_batch>>

\* line 88: while (!must_stop())
WorkerCheck ==
    /\ pcW = "check"
    /\ pcW' = IF must_stop THEN "done" ELSE "pop"
    /\ UNCHANGED <<workerFrame, prefetch_free_, prefetch_full_, batch, payload,
                   loaded, pending, device_copy, fill_seq, fill_started,
                   failed_batch>>

\* line 89 with peek() in place of pop(): the batch stays in prefetch_free_
WorkerPop_Peek ==
    /\ pcW = "pop"
    /\ QueueCanPop(prefetch_free_)
    /\ batch' = QueueFront(prefetch_free_)
    /\ loaded' = [loaded EXCEPT ![batch'] = FALSE]
    /\ device_copy' = [device_copy EXCEPT ![batch'] = {}]
    /\ fill_started' = fill_started + 1
    /\ pcW' = "load"
    /\ UNCHANGED <<workerFrame, prefetch_free_, prefetch_full_, payload, pending,
                   fill_seq, failed_batch>>

\* line 89: batch = prefetch_free_.pop() returns, and load_batch(batch) is
\* entered: the contents of the batch are being written from here on
WorkerPop ==
    /\ pcW = "pop"
    /\ QueueCanPop(prefetch_free_)
    /\ batch' = QueueFront(prefetch_free_)
    /\ prefetch_free_' = QueuePopped(prefetch_free_)
    /\ loaded' = [loaded EXCEPT ![batch'] = FALSE]
    /\ device_copy' = [device_copy EXCEPT ![batch'] = {}]
    /\ fill_started' = fill_started + 1
    /\ pcW' = "load"
    /\ UNCHANGED <<workerFrame, prefetch_full_, payload, pending, fill_seq,
                   failed_batch>>

\* the interruption caught inside the loop and the pop retried: the worker
\* stays blocked in prefetch_free_.pop()
WorkerPopInterrupted_Retry ==
    /\ pcW = "pop"
    /\ ~QueueCanPop(prefetch_free_)
    /\ must_stop
    /\ pcW' = "pop"
    /\ UNCHANGED <<workerFrame, prefetch_free_, prefetch_full_, batch, payload,
                   loaded, pending, device_copy, fill_seq, fill_started,
                   failed_batch>>

\* InternalThreadEntry without the catch of lines 102-104: the interruption
\* leaves the function as an exception, like a failure of load_batch
WorkerPopInterrupted_Uncaught ==
    /\ pcW = "pop"
    /\ ~QueueCanPop(prefetch_free_)
    /\ must_stop
    /\ pcW' = "failed"
    /\ UNCHANGED <<workerFrame, prefetch_free_, prefetch_full_, batch, payload,
                   loaded, pending, device_copy, fill_seq, fill_started,
                   failed_batch>>

\* lines 89, 102-104: the pop is blocked on an empty queue when the thread is
\* interrupted; boost::thread_interrupted is caught and the function returns
WorkerPopInterrupted ==
    /\ pcW = "pop"
    /\ ~QueueCanPop(prefetch_free_)
    /\ must_stop
    /\ pcW' = "done"
    /\ UNCHANGED <<workerFrame, prefetch_free_, prefetch_full_, batch, payload,
                   loaded, pending, device_copy, fill_seq, fill_started,
                   failed_batch>>

\* line 90: load_batch(batch) returns; the fill stamps the batch with the
\* next sequence number
WorkerLoad ==
    /\ pcW = "load"
    /\ payload' = [payload EXCEPT ![batch] = fill_seq]
    /\ loaded' = [loaded EXCEPT ![batch] = TRUE]
    /\ fill_seq' = fill_seq + 1
    /\ pcW' = IF mode = "GPU" THEN "async_push" ELSE "push"
    /\ UNCHANGED <<workerFrame, prefetch_free_, prefetch_full_, batch, pending, device_copy,
                   fill_started, failed_batch>>

\* a catch (...) that swallows the failure of load_batch: the iteration goes
\* on and publishes the batch
WorkerLoadThrows_Swallowed ==
    /\ pcW = "load"
    /\ failed_batch' = batch
    /\ pcW' = "push"
    /\ UNCHANGED <<workerFrame, prefetch_free_, prefetch_full_, batch, payload,
                   loaded, pending, device_copy, fill_seq, fill_started>>

\* line 90 under the try of line 87: load_batch throws something other than
\* boost::thread_interrupted; no handler matches, the exception leaves
\* InternalThreadEntry (line 100 is skipped) and the worker is gone
WorkerLoadThrows ==
    /\ pcW = "load"
    /\ failed_batch' = batch
    /\ batch' = NoBatch
    /\ pcW' = "failed"
    /\ UNCHANGED <<workerFrame, prefetch_free_, prefetch_full_, payload, loaded,
                   pending, device_copy, fill_seq, fill_started>>

\* lines 92-97 without the copy of label_: only data_ is pushed to the device
WorkerAsyncPush_NoLabel ==
    /\ pcW = "async_push"
    /\ pending' = {<<batch, "data">>}
    /\ pcW' = "sync"
    /\ UNCHANGED <<workerFrame, prefetch_free_, prefetch_full_, batch, payload,
                   loaded, device_copy, fill_seq, fill_started,
                   failed_batch>>

\* lines 92-96: async_gpu_push of data_, and of label_ when output_labels_
WorkerAsyncPush ==
    /\ pcW = "async_push"
    /\ pending' = {<<batch, "data">>}
                  \cup (IF output_labels_ THEN {<<batch, "label">>} ELSE {})
    /\ pcW' = "sync"
    /\ UNCHANGED <<workerFrame, prefetch_free_, prefetch_full_, batch, payload,
                   loaded, device_copy, fill_seq, fill_started,
                   failed_batch>>

\* line 97: cudaStreamSynchronize(stream) returns once both copies are done
WorkerSync ==
    /\ pcW = "sync"
    /\ pending' = {}
    /\ device_copy' = [device_copy EXCEPT
                        ![batch] = {t[2] : t \in {u \in pending : u[1] = batch}}]
    /\ pcW' = "push"
    /\ UNCHANGED <<workerFrame, prefetch_free_, prefetch_full_, batch, payload,
                   loaded, fill_seq, fill_started, failed_batch>>

\* the loop without line 100: the batch that was filled is pushed nowhere
WorkerPush_Dropped ==
    /\ pcW = "push"
    /\ batch' = NoBatch
    /\ pcW' = "check"
    /\ UNCHANGED <<workerFrame, prefetch_free_, prefetch_full_, payload, loaded,
                   pending, device_copy, fill_seq, fill_started, failed_batch>>

\* lines 100-101: prefetch_full_.push(batch); the iteration, and with it the
\* local batch, ends
WorkerPush ==
    /\ pcW = "push"
    /\ prefetch_full_' = QueuePush(prefetch_full_, batch)
    /\ batch' = NoBatch
    /\ pcW' = "check"
    /\ UNCHANGED <<workerFrame, prefetch_free_, payload, loaded, pending, device_copy,
                   fill_seq, fill_started, failed_batch>>

\* what no consumer step changes
consumerFrame == <<regVars, prefetch_n, mode, top_size, output_labels_, init_rand_calls,
                   thread_state, thread_started, interrupted_at, pcW, batch,
                   payload, loaded,
                   pending, device_copy, fill_seq, fill_started, failed_batch>>

\* Forward_cpu without lines 115-117: the batch of the call before is never
\* given back
ForwardCpuBegin_NoReturn ==
    /\ pcC = "idle"
    /\ thread_state = "RUNNING"
    /\ next_calls < MaxNext
    /\ next_calls' = next_calls + 1
    /\ pcC' = "pop"
    /\ UNCHANGED <<consumerFrame, prefetch_free_, prefetch_full_,
                   prefetch_current_, top_data, top_label, received>>

\* line 116 with the queues mixed up: the batch of the call before is pushed
\* to prefetch_full_
ForwardCpuBegin_ReturnToFull ==
    /\ pcC = "idle"
    /\ thread_state = "RUNNING"
    /\ next_calls < MaxNext
    /\ prefetch_full_' = IF prefetch_current_ # NoBatch
                         THEN QueuePush(prefetch_full_, prefetch_current_)
                         ELSE prefetch_full_
    /\ next_calls' = next_calls + 1
    /\ pcC' = "pop"
    /\ UNCHANGED <<consumerFrame, prefetch_free_, prefetch_current_, top_data,
                   top_label, received>>

\* line 116 executed twice: the batch of the call before is pushed to
\* prefetch_free_ two times
ForwardCpuBegin_ReturnTwice ==
    /\ pcC = "idle"
    /\ thread_state = "RUNNING"
    /\ next_calls < MaxNext
    /\ prefetch_free_' = IF prefetch_current_ # NoBatch
                         THEN QueuePush(QueuePush(prefetch_free_, prefetch_current_),
                                        prefetch_current_)
                         ELSE prefetch_free_
    /\ next_calls' = next_calls + 1
    /\ pcC' = "pop"
    /\ UNCHANGED <<consumerFrame, prefetch_full_, prefetch_current_, top_data,
                   top_label, received>>

\* lines 113-117: Forward_cpu is entered; a batch held from the call before
\* is pushed to prefetch_free_ (prefetch_current_ keeps pointing to it)
ForwardCpuBegin ==
    /\ pcC = "idle"
    /\ thread_state = "RUNNING"
    /\ next_calls < MaxNext
    /\ prefetch_free_' = IF prefetch_current_ # NoBatch
                         THEN QueuePush(prefetch_free_, prefetch_current_)
                         ELSE prefetch_free_
    /\ next_calls' = next_calls + 1
    /\ pcC' = "pop"
    /\ UNCHANGED <<consumerFrame, prefetch_full_, prefetch_current_, top_data,
                   top_label, received>>

\* line 118 with peek() in place of pop(): the batch stays in prefetch_full_
ForwardCpuPop_Peek ==
    /\ pcC = "pop"
    /\ QueueCanPop(prefetch_full_)
    /\ prefetch_current_' = QueueFront(prefetch_full_)
    /\ top_data' = prefetch_current_'
    /\ top_label' = IF output_labels_ THEN prefetch_current_' ELSE top_label
    /\ received' = Append(received, payload[prefetch_current_'])
    /\ pcC' = "idle"
    /\ UNCHANGED <<consumerFrame, prefetch_free_, prefetch_full_, next_calls>>

\* Forward_cpu without lines 122-126: top[1] is never pointed at label_
ForwardCpuPop_NoLabel ==
    /\ pcC = "pop"
    /\ QueueCanPop(prefetch_full_)
    /\ prefetch_current_' = QueueFront(prefetch_full_)
    /\ prefetch_full_' = QueuePopped(prefetch_full_)
    /\ top_data' = prefetch_current_'
    /\ received' = Append(received, payload[prefetch_current_'])
    /\ pcC' = "idle"
    /\ UNCHANGED <<consumerFrame, prefetch_free_, top_label, next_calls>>

\* lines 118-127: prefetch_full_.pop("Waiting for data") returns, top[0] (and
\* top[1] when output_labels_) share the batch's memory, Forward_cpu returns
ForwardCpuPop ==
    /\ pcC = "pop"
    /\ QueueCanPop(prefetch_full_)
    /\ prefetch_current_' = QueueFront(prefetch_full_)
    /\ prefetch_full_' = QueuePopped(prefetch_full_)
    /\ top_data' = prefetch_current_'
    /\ top_label' = IF output_labels_ THEN prefetch_current_' ELSE top_label
    /\ received' = Append(received, payload[prefetch_current_'])
    /\ pcC' = "idle"
    /\ UNCHANGED <<consumerFrame, prefetch_free_, next_calls>>

\* InternalThread::StopInternalThread(), first half: the interruption of the
\* thread is requested.  The thread that drives Forward_cpu calls it.
StopRequest ==
    /\ thread_state = "RUNNING"
    /\ pcC = "idle"
    /\ thread_state' = "STOP_REQUESTED"
    /\ interrupted_at' = IF pcW = "pop" /\ ~QueueCanPop(prefetch_free_)
                         THEN "blocked_pop" ELSE pcW
    /\ UNCHANGED <<regVars, prefetch_n, mode, top_size, output_labels_,
                   init_rand_calls,
                   prefetch_free_, prefetch_full_, prefetch_current_, top_data,
                   top_label, thread_started, pcW, batch, pcC, payload, loaded,
                   pending, device_copy, fill_seq, fill_started, received, failed_batch,
                   next_calls>>

\* InternalThread::StopInternalThread(), second half: join() returns once the
\* thread has ended
StopJoin ==
    /\ thread_state = "STOP_REQUESTED"
    /\ pcW \in {"done", "failed"}
    /\ thread_state' = "STOPPED"
    /\ UNCHANGED <<regVars, prefetch_n, mode, top_size, output_labels_,
                   init_rand_calls,
                   prefetch_free_, prefetch_full_, prefetch_current_, top_data,
                   top_label, thread_started, interrupted_at, pcW, batch, pcC,
                   payload, loaded,
                   pending, device_copy, fill_seq, fill_started, received, failed_batch,
                   next_calls>>

(***************************************************************************)
(* Specifications                                                          *)
(***************************************************************************)

Init == RegInit /\ PipeInit

Next ==
    \/ LayerSetUp
    \/ WorkerCheck
    \/ WorkerPop
    \/ WorkerPopInterrupted
    \/ WorkerLoad
    \/ WorkerLoadThrows
    \/ WorkerAsyncPush
    \/ WorkerSync
    \/ WorkerPush
    \/ ForwardCpuBegin
    \/ ForwardCpuPop
    \/ StopRequest
    \/ StopJoin

\* the pipeline: set-up, the worker thread, the consumer, stop
Spec == Init /\ [][Next]_vars

RegistryInit == RegInit /\ PipeInitFor(1, "CPU", 1) /\ output_labels_ = FALSE

RegistryNext ==
    \/ \E type \in TypeNames, creator \in Creators : LayerRegisterer(type, creator)
    \/ \E param \in Params : CallCreateLayer(param)
    \/ CallLayerTypeList
    \/ \E type \in TypeNames, creator \in Creators : SolverRegisterer(type, creator)
    \/ \E param \in Params : CallCreateSolver(param)
    \/ CallSolverTypeList

\* the registries: the calls of a program up to its first failed CHECK
RegistrySpec == RegistryInit /\ [][RegistryNext]_vars

\* the worker thread runs whenever it can: every step of InternalThreadEntry
\* that is not blocked is taken, load_batch returns or throws, and the thread
\* in StopInternalThread returns from join() once the worker has ended
Fairness ==
    /\ WF_vars(WorkerCheck)
    /\ WF_vars(WorkerPop)
    /\ WF_vars(WorkerPopInterrupted)
    /\ WF_vars(WorkerLoad \/ WorkerLoadThrows)
    /\ WF_vars(WorkerAsyncPush)
    /\ WF_vars(WorkerSync)
    /\ WF_vars(WorkerPush)
    /\ WF_vars(StopJoin)

FairSpec == Init /\ [][Next]_vars /\ Fairness

\* the thread inside Forward_cpu runs too: its pop returns once the full
\* queue holds a batch
ConsumerFairness == WF_vars(ForwardCpuPop)

LiveSpec == Init /\ [][Next]_vars /\ Fairness /\ ConsumerFairness

(***************************************************************************)
(* Properties                                                              *)
(***************************************************************************)

\* the batches in the free queue, in the full queue, in the worker's hands
\* and pointed to by prefetch_current_, counted with multiplicity
HeldCount ==
    Len(prefetch_free_) + Len(prefetch_full_)
    + (IF batch # NoBatch THEN 1 ELSE 0)
    + (IF prefetch_current_ # NoBatch THEN 1 ELSE 0)

\* the batches the queues and the worker hold
InTransit == Range(prefetch_free_) \cup Range(prefetch_full_)
             \cup (IF batch # NoBatch THEN {batch} ELSE {})

\* C1 as claimed: in every reachable state the free queue, the full queue,
\* the worker and the consumer's current batch hold exactly N batches.
C1_BufferCountAlwaysN == HeldCount = prefetch_n

\* C1 amended: the count is N whenever the consumer is outside Forward_cpu
\* and no load_batch has thrown.  Inside Forward_cpu, after the batch of the
\* call before was pushed to the free queue, prefetch_current_ still points
\* to it and it is counted twice; the batch whose load_batch threw is in none
\* of the four places.  No batch is ever twice in the queues and the worker.
C1_BufferCount ==
    /\ HeldCount = prefetch_n
                   + (IF pcC = "pop" /\ prefetch_current_ # NoBatch THEN 1 ELSE 0)
                   - (IF failed_batch # NoBatch THEN 1 ELSE 0)
    /\ Cardinality(InTransit) = Len(prefetch_free_) + Len(prefetch_full_)
                                + (IF batch # NoBatch THEN 1 ELSE 0)
    /\ InTransit \subseteq Batches

\* the consumer holds a batch between two calls while the worker fills
\* another one and a third place, the full queue, holds the rest
C1_Witness ==
    /\ pcC = "idle"
    /\ prefetch_current_ # NoBatch
    /\ batch # NoBatch
    /\ next_calls >= 2
    /\ failed_batch = NoBatch

\* C2: with a fill that stamps 0, 1, 2, ..., the calls of Forward_cpu hand
\* out 0, 1, 2, ... in this order, without a repeat and without a gap.
C2_FifoOrder == received = [i \in 1 .. Len(received) |-> i - 1]

\* more calls have returned than there are batches
C2_Witness == Len(received) > prefetch_n /\ prefetch_n >= 2

\* C3: between two calls of Forward_cpu the batch the consumer holds, whose
\* memory top[0] shares, is in neither queue and not in the worker's hands,
\* and its contents are those handed out.
C3_ExclusiveOwner ==
    (pcC = "idle" /\ prefetch_current_ # NoBatch) =>
        /\ prefetch_current_ \notin InTransit
        /\ top_data = prefetch_current_
        /\ batch # top_data
        /\ loaded[top_data]
        /\ payload[top_data] = received[Len(received)]

\* the consumer reads its batch while the worker is writing another one
C3_Witness ==
    /\ pcC = "idle"
    /\ prefetch_current_ # NoBatch
    /\ pcW = "load"
    /\ Len(received) >= 2

\* C4: once the stop is requested, the worker ends and join() returns.
C4_StopReturns == (thread_state = "STOP_REQUESTED") ~> (thread_state = "STOPPED")

\* the stop has returned although the consumer never called Forward_cpu and
\* the worker had filled every batch and was blocked on the empty free queue
C4_Witness ==
    /\ thread_state = "STOPPED"
    /\ thread_started
    /\ next_calls = 0
    /\ prefetch_free_ = <<>>
    /\ Len(prefetch_full_) = prefetch_n
    /\ pcW = "done"

\* C5: AddCreator with a name that is present fails, and leaves the registry
\* as it was: the same names, the name still mapped to the first creator.
C5_DuplicateRegisterFails ==
    [][ (call_tick' # call_tick /\ call'.op = "AddCreator") =>
          /\ (call'.class = "Layer" /\ call'.type \in DOMAIN layer_registry) =>
                /\ fatal'.kind = "Layer type already registered"
                /\ layer_registry' = layer_registry
                /\ layer_registry'[call'.type] = layer_registered[call'.type]
          /\ (call'.class = "Solver" /\ call'.type \in DOMAIN solver_registry) =>
                /\ fatal'.kind = "Solver type already registered"
                /\ solver_registry' = solver_registry
                /\ solver_registry'[call'.type] = solver_registered[call'.type]
      ]_vars

\* a duplicate was registered with another creator than the first
C5_Witness ==
    /\ call.op = "AddCreator"
    /\ fatal.kind = "Layer type already registered"
    /\ call.type \in DOMAIN layer_registry
    /\ layer_registry[call.type] # call.creator
    /\ Cardinality(DOMAIN layer_registry) >= 2

\* C6: after Register calls with distinct names, *TypeList returns the names
\* registered: each of them, once, and no other.
C6_ListIsRegisteredSet ==
    (call.op = "TypeList") =>
        /\ call.class = "Layer" =>
              /\ Range(call.list) = DOMAIN layer_registered
              /\ Len(call.list) = Cardinality(DOMAIN layer_registered)
        /\ call.class = "Solver" =>
              /\ Range(call.list) = DOMAIN solver_registered
              /\ Len(call.list) = Cardinality(DOMAIN solver_registered)

\* the list of a registry that holds every name
C6_Witness ==
    /\ call.op = "TypeList"
    /\ call.class = "Layer"
    /\ DOMAIN layer_registered = TypeNames
    /\ Len(call.list) = Cardinality(TypeNames)

\* C7: Create with a type that is not registered fails and calls no creator.
C7_UnknownTypeFails ==
    (call.op = "Create") =>
        /\ (call.class = "Layer" /\ call.type \notin DOMAIN layer_registered) =>
              /\ fatal.kind = "Unknown layer type"
              /\ call.invoked = <<>>
              /\ call.ret = NoInstance
        /\ (call.class = "Solver" /\ call.type \notin DOMAIN solver_registered) =>
              /\ fatal.kind = "Unknown solver type"
              /\ call.invoked = <<>>
              /\ call.ret = NoInstance

\* an unregistered type was asked of a registry that holds other types
C7_Witness ==
    /\ call.op = "Create"
    /\ call.class = "Layer"
    /\ call.type \notin DOMAIN layer_registered
    /\ layer_registered # EmptyMap
    /\ fatal # NoFatal

\* C8: Create with a registered type calls the creator registered under that
\* type, once, with the parameter given, and returns what it made.
C8_CreateCallsRegistered ==
    (call.op = "Create") =>
        /\ (call.class = "Layer" /\ call.type \in DOMAIN layer_registered) =>
              /\ fatal = NoFatal
              /\ call.invoked = <<[creator |-> layer_registered[call.type],
                                   param |-> call.param]>>
              /\ call.ret = CallCreator(layer_registered[call.type], call.param)
        /\ (call.class = "Solver" /\ call.type \in DOMAIN solver_registered) =>
              /\ fatal = NoFatal
              /\ call.invoked = <<[creator |-> solver_registered[call.type],
                                   param |-> call.param]>>
              /\ call.ret = CallCreator(solver_registered[call.type], call.param)

\* a type was created from a registry that maps another type to another creator
C8_Witness ==
    /\ call.op = "Create"
    /\ call.class = "Layer"
    /\ fatal = NoFatal
    /\ call.ret # NoInstance
    /\ \E other \in DOMAIN layer_registered :
          /\ StringLess(other, call.type)
          /\ layer_registered[other] # layer_registered[call.type]

\* C9: after load_batch has thrown, the batch it was filling is never in the
\* full queue, the worker starts and completes no further fill and pushes
\* nothing, and what Forward_cpu hands out, and what waits in the full queue,
\* is a batch whose load_batch completed.
C9_FailedBatchNotServed ==
    /\ [](/\ failed_batch # NoBatch =>
                /\ failed_batch \notin Range(prefetch_full_)
                /\ ~loaded[failed_batch]
                /\ pcW = "failed"
          /\ \A b \in Range(prefetch_full_) : loaded[b]
          /\ (pcC = "idle" /\ prefetch_current_ # NoBatch) =>
                /\ loaded[prefetch_current_]
                /\ prefetch_current_ # failed_batch)
    /\ [][failed_batch # NoBatch =>
            /\ fill_started' = fill_started
            /\ fill_seq' = fill_seq
            /\ (prefetch_full_' = prefetch_full_
                \/ prefetch_full_' = Tail(prefetch_full_))
            /\ failed_batch' = failed_batch]_vars

\* the fill failed after the consumer had been served, and the consumer was
\* then handed the batch that was still waiting in the full queue
C9_Witness ==
    /\ failed_batch # NoBatch
    /\ Len(received) >= 2
    /\ pcC = "idle"
    /\ prefetch_full_ = <<>>

\* C10: a call of Forward_cpu made after the worker died of a fill error does
\* not wait for ever: it can always return.
C10_NextReportsFailure ==
    (pcW = "failed" /\ pcC = "pop") => ENABLED ForwardCpuPop

C12_InitRandOnce == thread_started => init_rand_calls = 1

\* what a step of the worker changes
workerVars == <<pcW, batch, payload, loaded, pending, device_copy, fill_seq, fill_started,
                failed_batch>>

\* C13: the thread goes STOPPED -> RUNNING (the start, which spawns the
\* worker) -> STOP_REQUESTED (the stop) -> STOPPED (the join) and no other
\* way; the worker leaves its loop only once the stop is requested, steps
\* only while RUNNING or STOP_REQUESTED, and not at all after the join.
C13_Lifecycle ==
    /\ [](/\ pcW = "done" => thread_state \in {"STOP_REQUESTED", "STOPPED"}
          /\ (pcW = "none") <=> ~thread_started
          /\ thread_state = "STOPPED" => pcW \in {"none", "done", "failed"})
    /\ [][/\ thread_state' # thread_state =>
                \/ /\ thread_state = "STOPPED" /\ thread_state' = "RUNNING"
                   /\ ~thread_started /\ thread_started'
                   /\ pcW = "none" /\ pcW' = "check"
                \/ /\ thread_state = "RUNNING"
                   /\ thread_state' = "STOP_REQUESTED"
                   /\ UNCHANGED workerVars
                \/ /\ thread_state = "STOP_REQUESTED"
                   /\ thread_state' = "STOPPED"
                   /\ pcW \in {"done", "failed"}
                   /\ UNCHANGED workerVars
          /\ (pcW # "none" /\ workerVars' # workerVars) =>
                /\ thread_state \in {"RUNNING", "STOP_REQUESTED"}
                /\ thread_state' = thread_state
          /\ (thread_started /\ thread_state = "STOPPED") =>
                /\ UNCHANGED workerVars
                /\ UNCHANGED <<prefetch_free_, prefetch_full_, thread_state>>
         ]_vars

\* the whole cycle was walked: the worker filled, the consumer was served,
\* the stop was requested and has returned
C13_Witness ==
    /\ thread_started
    /\ thread_state = "STOPPED"
    /\ pcW = "done"
    /\ fill_seq >= 2
    /\ Len(received) >= 1

\* the parts of a batch that go to the device: data_, and label_ with labels
DeviceParts == {"data"} \cup (IF output_labels_ THEN {"label"} ELSE {})

\* C14: in GPU mode a batch is pushed to the full queue only after the copies
\* of data_ (and of label_ with labels) were issued and the stream was
\* synchronised: no batch in the full queue, or held by the consumer between
\* two calls, has a copy pending or lacks the device copy of its contents.
C14_TransferBeforeReady ==
    mode = "GPU" =>
        /\ \A b \in Range(prefetch_full_)
                    \cup (IF pcC = "idle" /\ prefetch_current_ # NoBatch
                          THEN {prefetch_current_} ELSE {}) :
              /\ \A t \in pending : t[1] # b
              /\ device_copy[b] = DeviceParts
        /\ pcW = "push" => (pending = {} /\ device_copy[batch] = DeviceParts)
        /\ pending # {} => pcW = "sync"

\* with labels, a batch is in the consumer's hands and another in the full
\* queue while the copies of a third fill are pending
C14_Witness ==
    /\ mode = "GPU"
    /\ output_labels_
    /\ pcC = "idle"
    /\ prefetch_current_ # NoBatch
    /\ pending # {}
    /\ Len(received) >= 2

\* C15: a call of Forward_cpu first pushes the batch held from the call
\* before to the free queue, if and only if there is one, and touches nothing
\* else; then it pops the head of the full queue into prefetch_current_ and
\* points top[0], and top[1] with labels, at it.  The first call pushes
\* nothing, and once a call has returned the outputs refer to the batch
\* popped in it.
C15_ConsumerStep ==
    /\ [](/\ next_calls = 0 => prefetch_current_ = NoBatch
          /\ (pcC = "idle" /\ next_calls > 0) =>
                 /\ top_data = prefetch_current_
                 /\ output_labels_ => top_label = prefetch_current_
                 /\ payload[top_data] = Len(received) - 1)
    /\ [][/\ (pcC = "idle" /\ pcC' = "pop") =>
                 /\ prefetch_free_' = IF prefetch_current_ # NoBatch
                                      THEN Append(prefetch_free_, prefetch_current_)
                                      ELSE prefetch_free_
                 /\ next_calls = 0 => prefetch_free_' = prefetch_free_
                 /\ UNCHANGED <<prefetch_full_, top_data, top_label>>
          /\ (pcC = "pop" /\ pcC' = "idle") =>
                 /\ prefetch_full_ # <<>>
                 /\ prefetch_current_' = Head(prefetch_full_)
                 /\ prefetch_full_' = Tail(prefetch_full_)
                 /\ top_data' = Head(prefetch_full_)
                 /\ output_labels_ => top_label' = Head(prefetch_full_)
                 /\ UNCHANGED prefetch_free_
          /\ pcC' = pcC => UNCHANGED <<prefetch_current_, top_data, top_label>>]_vars

\* with labels, the third call has returned: the batch of the second call
\* went back to the free queue and the outputs show the third fill
C15_Witness ==
    /\ output_labels_
    /\ pcC = "idle"
    /\ Len(received) = 3
    /\ top_label = prefetch_current_
    /\ payload[top_data] = 2

\* C16: the fills the worker has started are at most N more than the calls
\* of Forward_cpu that have returned, and when they are N more the free queue
\* is empty: a worker that comes back for another batch blocks in
\* prefetch_free_.pop().
C16_BoundedRunAhead ==
    /\ fill_started - Len(received) <= prefetch_n
    /\ fill_started - Len(received) = prefetch_n =>
           /\ prefetch_free_ = <<>>
           /\ ~ENABLED WorkerPop

\* the worker is N fills ahead of a consumer that has been served, and is
\* back at the pop of the free queue
C16_Witness ==
    /\ prefetch_n >= 2
    /\ Len(received) >= 1
    /\ fill_started - Len(received) = prefetch_n
    /\ pcW = "pop"

\* C17 as claimed: a worker that was blocked in prefetch_free_.pop() or was
\* waiting in cudaStreamSynchronize when the stop was requested pushes
\* nothing to the full queue from then on.
C17_NoPushAfterCancel ==
    [][(must_stop /\ interrupted_at \in {"blocked_pop", "sync"}) =>
           Len(prefetch_full_') <= Len(prefetch_full_)]_vars

\* C17 amended: an interruption that arrives while the worker is blocked in
\* prefetch_free_.pop() ends the worker at once, with nothing pushed; one
\* that arrives while the worker waits in cudaStreamSynchronize lets the wait
\* return, the batch in hand is pushed to the full queue, and the worker ends
\* at the next test of must_stop().  Either way the worker ends as "done",
\* never as "failed", no batch is recorded as failed by it, and the only
\* push after the request is that of the batch the worker had in hand.
C17_CancelCleanExit ==
    /\ [](pcW = "failed" <=> failed_batch # NoBatch)
    /\ [][/\ (must_stop /\ pcW = "pop" /\ prefetch_free_ = <<>> /\ pcW' # pcW) =>
                 /\ pcW' = "done"
                 /\ UNCHANGED <<prefetch_full_, prefetch_free_, failed_batch>>
          /\ (must_stop /\ interrupted_at = "blocked_pop") =>
                 UNCHANGED <<prefetch_full_, prefetch_free_>>
          /\ (must_stop /\ pcW = "sync" /\ pcW' # pcW) =>
                 /\ pcW' = "push"
                 /\ UNCHANGED <<prefetch_full_, batch, failed_batch>>
          /\ (must_stop /\ prefetch_full_' # prefetch_full_) =>
                 /\ pcW = "push"
                 /\ prefetch_full_' = Append(prefetch_full_, batch)
                 /\ pcW' = "check"
          /\ (must_stop /\ pcW = "check" /\ pcW' # pcW) =>
                 /\ pcW' = "done"
                 /\ UNCHANGED <<prefetch_full_, failed_batch>>]_vars
    /\ (must_stop /\ \/ interrupted_at = "sync"
                     \/ interrupted_at = "blocked_pop")
           ~> (pcW = "done" /\ failed_batch = NoBatch)

\* the stop was requested while the worker waited in cudaStreamSynchronize;
\* the worker has ended, a batch is still free, and the batch it had in hand
\* is in the full queue
C17_Witness ==
    /\ mode = "GPU"
    /\ interrupted_at = "sync"
    /\ thread_state = "STOPPED"
    /\ pcW = "done"
    /\ prefetch_free_ # <<>>
    /\ prefetch_full_ # <<>>
    /\ failed_batch = NoBatch

\* a list of names without a repeat, every name before the greater ones
Ascending(l) == \A i, j \in 1 .. Len(l) : i < j => StringLess(l[i], l[j])

\* the one ascending list of the names in S
SortedList(S) == CHOOSE l \in [1 .. Cardinality(S) -> S] : Ascending(l)

\* the names of l, one after the other, ", " between two of them
RECURSIVE Joined(_)
Joined(l) ==
    IF l = <<>> THEN <<>>
    ELSE IF Len(l) = 1 THEN l[1]
    ELSE l[1] \o Separator \o Joined(Tail(l))

\* C18: the list *TypeList returns is the ascending list of the set of names
\* registered, whatever the order of the registrations was, and the known
\* types in the message of an unknown-type failure are the same names in the
\* same order.
C18_ListOrderIndependent ==
    /\ (call.op = "TypeList" /\ call.class = "Layer") =>
           /\ Ascending(call.list)
           /\ call.list = SortedList(Range(layer_order))
    /\ (call.op = "TypeList" /\ call.class = "Solver") =>
           /\ Ascending(call.list)
           /\ call.list = SortedList(DOMAIN solver_registered)
    /\ fatal.kind = "Unknown layer type" =>
           fatal.known = Joined(SortedList(Range(layer_order)))
    /\ fatal.kind = "Unknown solver type" =>
           fatal.known = Joined(SortedList(DOMAIN solver_registered))

\* every name was registered, the greatest first and the least last, and
\* the list was asked for
C18_Witness ==
    /\ call.op = "TypeList"
    /\ call.class = "Layer"
    /\ Len(layer_order) = Cardinality(TypeNames)
    /\ \A i, j \in 1 .. Len(layer_order) :
          i < j => StringLess(layer_order[j], layer_order[i])
    /\ call.list # layer_order

\* C19: a call of Create*, whether it returns or fails, and a call of
\* *TypeList leave both registries as they were: the same names, each with
\* the same creator.  A type that was looked up and not found is not in the
\* registry afterwards.
C19_LookupsKeepRegistry ==
    [][(call_tick' # call_tick /\ call'.op \in {"Create", "TypeList"}) =>
           /\ layer_registry' = layer_registry
           /\ solver_registry' = solver_registry
           /\ fatal'.kind = "Unknown layer type" =>
                  call'.type \notin DOMAIN layer_registry'
           /\ fatal'.kind = "Unknown solver type" =>
                  call'.type \notin DOMAIN solver_registry']_vars

\* a type that is not registered was asked of a registry with two names
C19_Witness ==
    /\ call.op = "Create"
    /\ call.class = "Layer"
    /\ fatal.kind = "Unknown layer type"
    /\ Cardinality(DOMAIN layer_registry) = 2
    /\ call.type \notin DOMAIN layer_registry

\* C20: a call of Forward_cpu (made while the thread runs, before any stop)
\* returns, unless a load_batch has thrown; and the worker is never blocked
\* on an empty free queue while the consumer is blocked on an empty full
\* queue.
C20_NextReturns ==
    /\ [](pcC = "pop" => thread_state = "RUNNING")
    /\ [](~(/\ pcW = "pop" /\ prefetch_free_ = <<>>
            /\ pcC = "pop" /\ prefetch_full_ = <<>>))
    /\ (pcC = "pop") ~> (pcC = "idle" \/ pcW = "failed")

\* the consumer has had more batches than there are and waits on the empty
\* full queue while the worker fills a batch that was given back
C20_Witness ==
    /\ prefetch_n >= 2
    /\ pcC = "pop"
    /\ prefetch_full_ = <<>>
    /\ pcW = "load"
    /\ Len(received) >= prefetch_n
    /\ failed_batch = NoBatch

====
